---------------------------- MODULE Spec2Model ----------------------------
(***************************************************************************)
(* Update detection and reload orchestration of DIM's service worker      *)
(* (src/src/app/register-service-worker.ts).                               *)
(*                                                                         *)
(* A string is a sequence of one-character strings: "1.2" is              *)
(* <<"1", ".", "2">>.  An optional value is a sequence of length 0 or 1.   *)
(***************************************************************************)
EXTENDS Integers, Sequences, FiniteSets

VARIABLES
    subscribers,            \* number of subscriptions to dimNeedsUpdate$
    observed,               \* for each of them, the latest value it got from
                            \* serverVersionChanged$
    fetch,                  \* inner observable of the first switchMap: "pending", or how
                            \* the last one ended: "idle" | "failed" | "same" | "dead"
    lastCompared,           \* distinctUntilChanged's previous value (line 25): <<>> | <<b>>
    upd,                    \* inner observable of the second switchMap (the update attempt)
    serverVersionChanged,   \* latest value of serverVersionChanged$ (shareReplay): <<>> | <<b>>
    serviceWorkerUpdated,   \* value of the BehaviorSubject serviceWorkerUpdated$
    dimNeedsUpdate,         \* the exported flag
    updateCalls,            \* invocations of updateServiceWorker() by the poller
    registered,             \* navigator.serviceWorker.register(): "pending" | "ok" | "failed"
    registration,           \* whether getRegistration() finds a registration
    controller,             \* whether navigator.serviceWorker.controller is set
    workers,                \* the service workers of the registration, oldest first
    listeners,              \* the 'controllerchange' listeners, in the order they were added
    ccQueued,               \* 'controllerchange' events queued, not yet dispatched
    ccEvents,               \* 'controllerchange' events dispatched so far
    timers,                 \* pending setTimeout callbacks of reloadDIM
    reloads,                \* calls of window.location.reload() by place of call
    calls,                  \* invocations of reloadDIM() and how they ended
    vcheck,                 \* one evaluation of isNewVersion on its own
    lateUpdates,            \* registration.update() calls in flight whose result the
                            \* second switchMap has switched away from
    lateRejected            \* did the last of those to settle reject (its catch ran)?

vars == <<subscribers, observed, fetch, lastCompared, upd, serverVersionChanged,
          serviceWorkerUpdated, dimNeedsUpdate, updateCalls, registered,
          registration, controller, workers, listeners, ccQueued, ccEvents, timers,
          reloads, calls, vcheck, lateUpdates, lateRejected>>

pollerVars == <<fetch, lastCompared, upd, serverVersionChanged, updateCalls,
               lateUpdates, lateRejected>>
workerVars == <<registered, registration, controller, workers, listeners, ccQueued,
               ccEvents>>
reloadVars == <<timers, reloads, calls>>

-----------------------------------------------------------------------------
(* Bounds of the model *)

MaxSubscribers == 2
MaxUpdateCalls == 2
MaxWorkers     == 1
MaxCCEvents    == 2
MaxReloadCalls == 1
MaxSegments    == 3

None == <<>>
Some(v) == <<v>>

Min(a, b) == IF a < b THEN a ELSE b

-----------------------------------------------------------------------------
(* Strings and numbers as JavaScript treats them *)

DigitChars == <<"0", "1", "2", "3", "4", "5", "6", "7", "8", "9">>

IsDigit(c) == \E i \in 1..10 : DigitChars[i] = c

DigitVal(c) == (CHOOSE i \in 1..10 : DigitChars[i] = c) - 1

(* StrWhiteSpaceChar, the characters parseInt skips at the start.  A
   character with no escape in this notation is written by its code point. *)
WhiteSpaceChars ==
    {" ", "\t", "\n", "\r", "\f", "U+000B", "U+00A0", "U+FEFF", "U+2028", "U+2029",
     "U+1680", "U+2000", "U+2001", "U+2002", "U+2003", "U+2004", "U+2005",
     "U+2006", "U+2007", "U+2008", "U+2009", "U+200A", "U+202F", "U+205F",
     "U+3000"}

IsSpace(c) == c \in WhiteSpaceChars

(* A natural number of any size: its decimal digits, most significant first,
   without leading zeros (zero is the empty sequence). *)
RECURSIVE Strip(_)
Strip(ds) == IF ds # <<>> /\ ds[1] = 0 THEN Strip(Tail(ds)) ELSE ds

RECURSIVE LexLess(_, _, _)
LexLess(a, b, i) ==
    IF i > Len(a) THEN FALSE
    ELSE IF a[i] # b[i] THEN a[i] < b[i]
    ELSE LexLess(a, b, i + 1)

NatLess(a, b) ==
    IF Len(a) # Len(b) THEN Len(a) < Len(b) ELSE LexLess(a, b, 1)

NatOdd(ds) == ds # <<>> /\ ds[Len(ds)] % 2 = 1

(* floor(n / d) and n mod d for a small d, by long division *)
RECURSIVE DivFrom(_, _, _, _, _)
DivFrom(ds, d, i, carry, acc) ==
    IF i > Len(ds) THEN [quot |-> Strip(acc), rem |-> carry]
    ELSE DivFrom(ds, d, i + 1, (carry * 10 + ds[i]) % d,
                 Append(acc, (carry * 10 + ds[i]) \div d))

Div(ds, d) == DivFrom(ds, d, 1, 0, <<>>)

(* n + 1 *)
RECURSIVE IncFrom(_, _, _)
IncFrom(ds, i, acc) ==
    IF i = 0 THEN <<1>> \o acc
    ELSE IF ds[i] = 9 THEN IncFrom(ds, i - 1, <<0>> \o acc)
    ELSE SubSeq(ds, 1, i - 1) \o <<ds[i] + 1>> \o acc

Inc(ds) == IncFrom(ds, Len(ds), <<>>)

(* 2^53: a Number holds every integer below it exactly, and above it only
   the multiples of a power of two that have 53 significant bits. *)
TwoTo53 == <<9, 0, 0, 7, 1, 9, 9, 2, 5, 4, 7, 4, 0, 9, 9, 2>>

TwoTo52 == <<4, 5, 0, 3, 5, 9, 9, 6, 2, 7, 3, 7, 0, 4, 9, 6>>
TwoTo77 == <<1, 5, 1, 1, 1, 5, 7, 2, 7, 4, 5, 1, 8, 2, 8, 6, 4, 6, 8, 3, 8, 2, 7, 2>>
TwoTo24 == 16777216
TwoTo23 == 8388608

(* The largest Number is (2^53 - 1) * 2^MaxShift; what rounds above it is
   Infinity. *)
MaxShift == 971

(* The Number nearest to the natural number n, ties to the even one, as
   sig * 2^exp: bits are dropped from n (24 at a time while that leaves 53,
   then one at a time) until it has 53 bits; `half` is the last bit dropped
   and `sticky` tells whether a bit dropped before it was set.  With exp > 0
   sig has exactly 53 bits, so that numbers compare by exp, then sig. *)
RECURSIVE RoundFrom(_, _, _, _)
RoundFrom(n, k, half, sticky) ==
    IF ~NatLess(n, TwoTo77)
    THEN LET x == Div(n, TwoTo24)
         IN  RoundFrom(x.quot, k + 24, x.rem >= TwoTo23,
                       sticky \/ half \/ x.rem % TwoTo23 # 0)
    ELSE IF ~NatLess(n, TwoTo53)
    THEN RoundFrom(Div(n, 2).quot, k + 1, NatOdd(n), sticky \/ half)
    ELSE LET up == half /\ (sticky \/ NatOdd(n))
             q == IF up THEN Inc(n) ELSE n
             sig == IF q = TwoTo53 THEN TwoTo52 ELSE q
             exp == IF q = TwoTo53 THEN k + 1 ELSE k
         IN  [inf |-> exp > MaxShift, exp |-> exp, sig |-> sig]

ToNumber(n) == RoundFrom(n, 0, FALSE, FALSE)

(* A JavaScript number that is NaN, or an integer with its sign (-0 is a
   number), or an infinity *)
NaN == [nan |-> TRUE, neg |-> FALSE, inf |-> FALSE, exp |-> 0, sig |-> <<>>]
Num(neg, n) ==
    LET x == ToNumber(n)
    IN  [nan |-> FALSE, neg |-> neg, inf |-> x.inf,
         exp |-> IF x.inf THEN 0 ELSE x.exp, sig |-> IF x.inf THEN <<>> ELSE x.sig]

IsZero(a) == ~a.inf /\ a.sig = <<>>
MagLess(a, b) ==
    IF a.inf THEN FALSE
    ELSE IF b.inf THEN TRUE
    ELSE IF a.exp # b.exp THEN a.exp < b.exp
    ELSE NatLess(a.sig, b.sig)
NumLess(a, b) ==
    LET an == a.neg /\ ~IsZero(a)
        bn == b.neg /\ ~IsZero(b)
    IN  IF an /\ ~bn THEN TRUE
        ELSE IF ~an /\ bn THEN FALSE
        ELSE IF an THEN MagLess(b, a)
        ELSE MagLess(a, b)

(* a > b and a < b on numbers: both are false when either side is NaN *)
JsGreater(a, b) == ~a.nan /\ ~b.nan /\ NumLess(b, a)
JsLess(a, b) == ~a.nan /\ ~b.nan /\ NumLess(a, b)

(* String.prototype.split('.') *)
RECURSIVE SplitFrom(_, _, _, _)
SplitFrom(s, i, cur, acc) ==
    IF i > Len(s) THEN Append(acc, cur)
    ELSE IF s[i] = "." THEN SplitFrom(s, i + 1, <<>>, Append(acc, cur))
    ELSE SplitFrom(s, i + 1, Append(cur, s[i]), acc)

Split(s) == SplitFrom(s, 1, <<>>, <<>>)

(* parseInt(s, 10): leading white space is skipped, an optional sign is read,
   then the longest run of decimal digits; NaN when there is no digit,
   otherwise the Number nearest to the integer the digits write. *)
RECURSIVE SkipSpace(_, _)
SkipSpace(s, i) ==
    IF i <= Len(s) /\ IsSpace(s[i]) THEN SkipSpace(s, i + 1) ELSE i

RECURSIVE ReadDigits(_, _, _, _)
ReadDigits(s, i, seen, acc) ==
    IF i <= Len(s) /\ IsDigit(s[i])
    THEN ReadDigits(s, i + 1, TRUE, Append(acc, DigitVal(s[i])))
    ELSE <<seen, acc>>

parseInt(s) ==
    LET i == SkipSpace(s, 1)
        signed == i <= Len(s) /\ s[i] \in {"-", "+"}
        neg == signed /\ s[i] = "-"
        r == ReadDigits(s, IF signed THEN i + 1 ELSE i, FALSE, <<>>)
    IN  IF ~r[1] THEN NaN ELSE Num(neg, Strip(r[2]))

(* The loop of isNewVersion (lines 158-168) from index i on: "newer", "older",
   or "same" when the loop ends without a break. *)
RECURSIVE CompareFrom(_, _, _)
CompareFrom(parts, currentVersionParts, i) ==
    IF ~(i <= Len(parts) /\ i <= Len(currentVersionParts)) THEN "same"
    ELSE LET versionSegment == parseInt(parts[i])
             currentVersionSegment == parseInt(currentVersionParts[i])
         IN  IF JsGreater(versionSegment, currentVersionSegment) THEN "newer"
             ELSE IF JsLess(versionSegment, currentVersionSegment) THEN "older"
             ELSE CompareFrom(parts, currentVersionParts, i + 1)

(* A plausible slip: the segments are compared as strings of digits, by their
   first character, instead of as numbers. *)
RECURSIVE CompareFromLexical(_, _, _)
CompareFromLexical(parts, currentVersionParts, i) ==
    IF ~(i <= Len(parts) /\ i <= Len(currentVersionParts)) THEN "same"
    ELSE LET a == parts[i]
             b == currentVersionParts[i]
             ka == IF a = <<>> THEN 0 ELSE DigitVal(a[1])
             kb == IF b = <<>> THEN 0 ELSE DigitVal(b[1])
         IN  IF ka > kb THEN "newer"
             ELSE IF ka < kb THEN "older"
             ELSE CompareFromLexical(parts, currentVersionParts, i + 1)

isNewVersionLexical(version, currentVersion) ==
    CompareFromLexical(Split(version), Split(currentVersion), 1) = "newer"

isNewVersion(version, currentVersion) ==
    CompareFrom(Split(version), Split(currentVersion), 1) = "newer"

(* $DIM_VERSION, the version of the running build *)
DIM_VERSION == <<"1", ".", "2", ".", "0">>

(* What /version.json may hold over the page's lifetime: the same version, a
   newer one, an older one, a prefix of the current one, an empty string. *)
ServerVersions ==
    { <<"1", ".", "2", ".", "0">>,
      <<"1", ".", "1", "0", ".", "0">>,
      <<"1", ".", "1", ".", "9">>,
      <<"1", ".", "2">>,
      <<"9", "9", ".", "0", ".", "0">>,
      <<>> }

(* The answers of fetch('/version.json') *)
Responses ==
    {[kind |-> k, version |-> <<>>] : k \in {"neterr", "notok", "badjson"}}
    \cup {[kind |-> "ok", version |-> v] : v \in ServerVersions}

(* getServerVersion (lines 137-149): the version, or nothing when it throws *)
getServerVersion(response) ==
    IF response.kind # "ok" THEN None
    ELSE IF response.version = <<>> THEN None
    ELSE Some(response.version)

(* Lines 23-24 for one answer: what reaches distinctUntilChanged, nothing
   when the fetch failed and otherwise the result of the comparison *)
Compared(response) ==
    IF getServerVersion(response) = None THEN None
    ELSE Some(isNewVersion(getServerVersion(response)[1], DIM_VERSION))

(* What a tick can send on *)
PollOutcomes == {Compared(r) : r \in Responses}


-----------------------------------------------------------------------------
(* The version poller and the aggregated signal (lines 11-47) *)

Idle == [st |-> "idle", failed |-> FALSE, value |-> FALSE]
Pending == [st |-> "pending", failed |-> FALSE, value |-> FALSE]
Settled(failed, value) == [st |-> "settled", failed |-> failed, value |-> value]

(* registration.waiting and registration.installing are set *)
Waiting == \E w \in 1..Len(workers) : workers[w].state = "installed"
Installing == \E w \in 1..Len(workers) : workers[w].state = "installing"

(* A slip: no change filter, every value passes *)
NoChangeFilter(prev, v) == TRUE

(* distinctUntilChanged (line 25): does value v pass after the previous one? *)
distinctUntilChanged(prev, v) == prev # Some(v)

(* The projection of combineLatest (lines 38-42): nothing until both sources
   have emitted; serviceWorkerUpdated$ is a BehaviorSubject and has. *)
combineLatest(server, updated) ==
    IF server = None THEN None ELSE Some(server[1] \/ updated)

(* tap (lines 43-45): the flag after the sources hold these latest values *)
Tap(server, updated, flag) ==
    LET out == combineLatest(server, updated)
    IN  IF out = None THEN flag ELSE out[1]

(* What the promise of the registered updateServiceWorker resolves to (lines
   107-124): the value returned by catch() is dropped by the then() after it. *)
updateServiceWorker(updateFailed, waiting) == waiting

(* A slip: no shareReplay, every subscription runs the pipeline for itself *)
NoShare(subs) == subs

(* shareReplay (line 28): the number of subscriptions to the pipeline above
   it, timer included, when `subs` subscriptions have been made below it. *)
shareReplay(subs) == IF subs > 0 THEN 1 ELSE 0

(* The timers running *)
Sources == shareReplay(subscribers)

(* serverVersionChanged$ emits v: shareReplay keeps it and hands it to every
   subscription, where combineLatest and tap run *)
EmitServer(v) ==
    /\ serverVersionChanged' = Some(v)
    /\ observed' = [i \in 1..subscribers |-> Some(v)]
    /\ dimNeedsUpdate' = Tap(Some(v), serviceWorkerUpdated, dimNeedsUpdate)

(* dimNeedsUpdate$ is subscribed: with the first subscription the timer starts;
   a later one gets the replayed values and runs its own combineLatest and tap. *)
Subscribe ==
    /\ subscribers < MaxSubscribers
    /\ subscribers' = subscribers + 1
    /\ observed' = Append(observed, serverVersionChanged)
    /\ dimNeedsUpdate' = Tap(serverVersionChanged, serviceWorkerUpdated, dimNeedsUpdate)
    /\ UNCHANGED <<pollerVars, serviceWorkerUpdated, workerVars, reloadVars, vcheck>>

(* A slip: catchError on the outer pipe, so that an error ends the stream *)
AfterFetchErrorOuter == "dead"

(* Line 23: catchError is on the inner observable and turns the error into
   empty(): nothing is emitted and the outer stream goes on. *)
AfterFetchError == "failed"

(* The timer fires (line 21): switchMap drops a fetch still in flight and
   starts getServerVersion() again.  Nothing fires once the stream has ended. *)
Tick ==
    /\ Sources > 0
    /\ fetch # "dead"
    /\ fetch' = "pending"
    /\ UNCHANGED <<subscribers, observed, lastCompared, upd, serverVersionChanged,
                   serviceWorkerUpdated, dimNeedsUpdate, updateCalls, lateUpdates,
                   lateRejected,
                   workerVars, reloadVars, vcheck>>

(* A slip: the function of lines 105-125 is in place from module load *)
ReplacedAtLoad(reg) == TRUE

(* Is updateServiceWorker the function assigned at line 105, in the then() of
   register(), rather than the initial no-op of line 11? *)
Replaced(reg) == reg = "ok"

(* The fetch of a tick ends (lines 23-27): it failed, or its comparison
   result is dropped by distinctUntilChanged ("same"), or it goes on.  A
   result that is not newer makes the second switchMap drop an update check
   still under way: registration.update() goes on, its result is ignored. *)
FetchResolve(compared) ==
    /\ fetch = "pending"
    /\ LET needsUpdate == compared[1]
       IN  IF compared = None
           THEN /\ fetch' = AfterFetchError
                /\ UNCHANGED <<lastCompared, upd, serverVersionChanged, observed,
                               dimNeedsUpdate, updateCalls, lateUpdates,
                               lateRejected>>
           ELSE IF ~distinctUntilChanged(lastCompared, needsUpdate)
           THEN /\ fetch' = "same"
                /\ UNCHANGED <<lastCompared, upd, serverVersionChanged, observed,
                               dimNeedsUpdate, updateCalls, lateUpdates,
                               lateRejected>>
           ELSE /\ fetch' = "idle"
                /\ lastCompared' = Some(needsUpdate)
                /\ lateUpdates' = IF ~needsUpdate /\ upd.st = "pending"
                                  THEN lateUpdates + 1 ELSE lateUpdates
                /\ UNCHANGED lateRejected
                /\ IF needsUpdate
                   THEN /\ updateCalls < MaxUpdateCalls
                        /\ updateCalls' = updateCalls + 1
                        /\ IF Replaced(registered)
                           THEN \* registration.update() is under way
                                /\ upd' = Pending
                                /\ UNCHANGED <<serverVersionChanged, observed,
                                               dimNeedsUpdate>>
                           ELSE \* the initial no-op (line 11) resolves false
                                /\ upd' = Idle
                                /\ EmitServer(FALSE)
                   ELSE /\ upd' = Idle
                        /\ EmitServer(FALSE)
                        /\ UNCHANGED updateCalls
    /\ UNCHANGED <<subscribers, serviceWorkerUpdated, workerVars, reloadVars, vcheck>>

(* registration.update() of the pending attempt settles and the promise of
   updateServiceWorker resolves (lines 107-124). *)
UpdateSettled(updateFailed) ==
    /\ upd.st = "pending"
    /\ LET value == updateServiceWorker(updateFailed, Waiting)
       IN  /\ upd' = Settled(updateFailed, value)
           /\ EmitServer(value)
    /\ UNCHANGED <<subscribers, fetch, lastCompared, serviceWorkerUpdated,
                   updateCalls, lateUpdates, lateRejected, workerVars, reloadVars,
                   vcheck>>

(* registration.update() of an attempt the second switchMap has switched
   away from settles: when it rejects the catch of lines 109-115 runs, then()
   of lines 116-124 runs either way, and what the promise resolves to
   reaches nobody. *)
UpdateSettledLate(updateFailed) ==
    /\ lateUpdates > 0
    /\ lateUpdates' = lateUpdates - 1
    /\ lateRejected' = updateFailed
    /\ UNCHANGED <<subscribers, observed, fetch, lastCompared, upd,
                   serverVersionChanged, serviceWorkerUpdated, dimNeedsUpdate,
                   updateCalls, workerVars, reloadVars, vcheck>>

-----------------------------------------------------------------------------
(* The worker lifecycle watcher (lines 52-132) *)

(* A worker the registration found: its state, the function assigned to its
   onstatechange ("none", "watcher" of lines 67-102, "reload" of lines 200-205)
   and the 'skipWaiting' messages posted to it. *)
NewWorker(handler) == [state |-> "installing", handler |-> handler, skip |-> 0]

(* A 'controllerchange' listener as added at line 80, with its own
   preventDevToolsReloadLoop, and its calls of window.location.reload(). *)
NewListener == [preventDevToolsReloadLoop |-> FALSE, reloads |-> 0]

(* A slip: the listener without its guard *)
ControllerChangeListenerUnguarded(l) ==
    [preventDevToolsReloadLoop |-> TRUE, reloads |-> l.reloads + 1]

(* The listener's body (lines 80-88) run once *)
ControllerChangeListener(l) ==
    IF l.preventDevToolsReloadLoop THEN l
    ELSE [preventDevToolsReloadLoop |-> TRUE, reloads |-> l.reloads + 1]

(* One 'controllerchange' event: every listener runs, in order *)
Dispatch(ls) == [i \in 1..Len(ls) |-> ControllerChangeListener(ls[i])]

(* A slip: the update branch is taken whether or not the page has a controller *)
WatcherIgnoresController(state, hasController) == state = "installed"

(* A slip: the update branch is taken on any change of state *)
WatcherIgnoresState(state, hasController) == hasController

(* Lines 68-69: does the watcher's onstatechange, run with the worker in this
   state, take the update branch (lines 70-88)? *)
WatcherUpdates(state, hasController) == state = "installed" /\ hasController

(* A slip: reloadDIM's onstatechange posts on any change of state *)
ReloadHandlerPostsAlways(state) == TRUE

(* Line 201: does reloadDIM's onstatechange post 'skipWaiting'? *)
ReloadHandlerPosts(state) == state = "installed"

(* The workers change state as newState says and the onstatechange of each
   one that changed runs: the workers afterwards, and the number of watcher
   handlers that took the update branch. *)
WorkersAfter(newState) ==
    [i \in 1..Len(workers) |->
        [workers[i] EXCEPT
            !.state = newState[i],
            !.skip = IF newState[i] # workers[i].state
                        /\ workers[i].handler = "reload"
                        /\ ReloadHandlerPosts(newState[i])
                     THEN @ + 1 ELSE @]]

WatcherUpdateCount(newState) ==
    Cardinality({i \in 1..Len(workers) :
                    /\ newState[i] # workers[i].state
                    /\ workers[i].handler = "watcher"
                    /\ WatcherUpdates(newState[i], controller)})

(* Lines 77-88 for each update branch taken: the latch is set, the aggregated
   signal follows, a listener is added.  The browser queues `events`
   'controllerchange' events with the change; they are dispatched in a task
   of their own (ControllerChange). *)
StateChange(newState, events) ==
    LET n == WatcherUpdateCount(newState)
        added == listeners \o [k \in 1..n |-> NewListener]
    IN  /\ workers' = WorkersAfter(newState)
        /\ serviceWorkerUpdated' = (serviceWorkerUpdated \/ n > 0)
        /\ dimNeedsUpdate' =
              IF n > 0 THEN Tap(serverVersionChanged, TRUE, dimNeedsUpdate)
              ELSE dimNeedsUpdate
        /\ ccQueued' = ccQueued + events
        /\ listeners' = added

(* navigator.serviceWorker.register() resolves (lines 60-126): onupdatefound
   is set and updateServiceWorker is replaced. *)
RegisterOk ==
    /\ registered = "pending"
    /\ registered' = "ok"
    /\ registration' = TRUE
    /\ UNCHANGED <<subscribers, observed, pollerVars, serviceWorkerUpdated, dimNeedsUpdate,
                   controller, workers, listeners, ccQueued, ccEvents,
                   reloadVars, vcheck>>

(* register() rejects (lines 127-130) *)
RegisterFail ==
    /\ registered = "pending"
    /\ registered' = "failed"
    /\ UNCHANGED <<subscribers, observed, pollerVars, serviceWorkerUpdated, dimNeedsUpdate,
                   registration, controller, workers, listeners, ccQueued, ccEvents,
                   reloadVars, vcheck>>

(* The browser finds a new worker; onupdatefound (lines 62-103), when set,
   assigns the watcher's handler to the installing worker. *)
UpdateFound ==
    /\ registration
    /\ ~Installing
    /\ Len(workers) < MaxWorkers
    /\ workers' = Append(workers,
                         NewWorker(IF registered = "ok" THEN "watcher" ELSE "none"))
    /\ UNCHANGED <<subscribers, observed, pollerVars, serviceWorkerUpdated, dimNeedsUpdate,
                   registered, registration, controller, listeners, ccQueued, ccEvents,
                   reloadVars, vcheck>>

(* Worker w reaches 'installed'; a worker that was waiting becomes redundant. *)
InstallFinished(w) ==
    /\ w \in 1..Len(workers)
    /\ workers[w].state = "installing"
    /\ StateChange([i \in 1..Len(workers) |->
                       IF i = w THEN "installed"
                       ELSE IF workers[i].state = "installed" THEN "redundant"
                       ELSE workers[i].state], 0)
    /\ UNCHANGED <<subscribers, observed, pollerVars, registered, registration, controller,
                   ccEvents, reloadVars, vcheck>>

(* The installation of worker w fails: it becomes redundant. *)
InstallFailed(w) ==
    /\ w \in 1..Len(workers)
    /\ workers[w].state = "installing"
    /\ StateChange([i \in 1..Len(workers) |->
                       IF i = w THEN "redundant" ELSE workers[i].state], 0)
    /\ UNCHANGED <<subscribers, observed, pollerVars, registered, registration, controller,
                   ccEvents, reloadVars, vcheck>>

(* The waiting worker w becomes the active one and the one that was active
   becomes redundant: registration.waiting is null from here on.  With a
   controller in place the page's controller changes; without one it does
   when the worker claims the page.  The 'controllerchange' event of the
   change is queued. *)
Activate(w, claim) ==
    /\ w \in 1..Len(workers)
    /\ workers[w].state = "installed"
    /\ (controller \/ claim) => ccEvents + ccQueued < MaxCCEvents
    /\ controller' = (controller \/ claim)
    /\ StateChange([i \in 1..Len(workers) |->
                       IF i = w THEN "activated"
                       ELSE IF workers[i].state = "activated" THEN "redundant"
                       ELSE workers[i].state],
                   IF controller \/ claim THEN 1 ELSE 0)
    /\ UNCHANGED <<subscribers, observed, pollerVars, registered, registration,
                   ccEvents, reloadVars, vcheck>>

(* A queued 'controllerchange' event is dispatched: the listeners there are
   by now run (lines 80-88). *)
ControllerChange ==
    /\ ccQueued > 0
    /\ ccQueued' = ccQueued - 1
    /\ ccEvents' = ccEvents + 1
    /\ listeners' = Dispatch(listeners)
    /\ UNCHANGED <<subscribers, observed, pollerVars, serviceWorkerUpdated, dimNeedsUpdate,
                   registered, registration, controller, workers, reloadVars, vcheck>>

(* 'controllerchange' is delivered once more for a change already announced
   (the "force update on reload" behaviour the guard of line 83 is for). *)
ControllerChangeAgain ==
    /\ ccEvents >= 1
    /\ ccEvents + ccQueued < MaxCCEvents
    /\ ccEvents' = ccEvents + 1
    /\ listeners' = Dispatch(listeners)
    /\ UNCHANGED <<subscribers, observed, pollerVars, serviceWorkerUpdated, dimNeedsUpdate,
                   registered, registration, controller, workers, ccQueued,
                   reloadVars, vcheck>>

-----
(* The reload coordinator (lines 182-223) *)

ReloadSites == {"noreg", "nothing", "timer", "catch"}

RECURSIVE SumReloads(_, _)
SumReloads(ls, i) ==
    IF i > Len(ls) THEN 0 ELSE ls[i].reloads + SumReloads(ls, i + 1)

(* calls of window.location.reload() by the listeners of line 80, and by all *)
ListenerReloads == SumReloads(listeners, 1)
TotalReloads ==
    ListenerReloads + reloads["noreg"] + reloads["nothing"]
    + reloads["timer"] + reloads["catch"]

(* A slip: no try/catch, the exception rejects the promise and nothing reloads *)
NoCatchBlock == [reload |-> FALSE, rejects |-> TRUE]

(* The catch block (lines 219-222) *)
CatchBlock == [reload |-> TRUE, rejects |-> FALSE]

(* The branch reloadDIM takes (lines 183-218) *)
ReloadPath(getRegistrationThrows, postMessageThrows) ==
    IF getRegistrationThrows THEN "catch"
    ELSE IF ~registration THEN "noreg"
    ELSE IF ~Waiting THEN (IF Installing THEN "installing" ELSE "nothing")
    ELSE IF postMessageThrows THEN "catch"
    ELSE "waiting"

(* A slip: the branch without a registration returns without reloading *)
ImmediateReloadExceptNoRegistration(path) ==
    path = "nothing" \/ (path = "catch" /\ CatchBlock.reload)

(* The branches that call window.location.reload() before reloadDIM returns
   (lines 188, 207, 221) *)
ImmediateReload(path) ==
    path \in {"noreg", "nothing"} \/ (path = "catch" /\ CatchBlock.reload)

(* A slip: the waiting branch posts the message and schedules nothing *)
NoFallback(path) == FALSE

(* The branch that schedules the fallback reload (lines 216-218) *)
SchedulesFallback(path) == path = "waiting"

(* reloadDIM() runs, from the point where getRegistration() has settled. *)
reloadDIM(getRegistrationThrows, postMessageThrows) ==
    /\ calls.n < MaxReloadCalls
    /\ LET path == ReloadPath(getRegistrationThrows, postMessageThrows)
       IN  /\ calls' = [n |-> calls.n + 1,
                        thrown |-> calls.thrown + (IF path = "catch" THEN 1 ELSE 0),
                        rejected |-> calls.rejected
                            + (IF path = "catch" /\ CatchBlock.rejects THEN 1 ELSE 0)]
           /\ reloads' =
                 IF ImmediateReload(path)
                 THEN [reloads EXCEPT ![path] = @ + 1]
                 ELSE reloads
           /\ timers' = IF SchedulesFallback(path) THEN timers + 1 ELSE timers
           /\ workers' =
                 [i \in 1..Len(workers) |->
                     IF path = "installing" /\ workers[i].state = "installing"
                     THEN [workers[i] EXCEPT !.handler = "reload"]
                     ELSE IF path = "waiting" /\ workers[i].state = "installed"
                     THEN [workers[i] EXCEPT !.skip = @ + 1]
                     ELSE workers[i]]
    /\ UNCHANGED <<subscribers, observed, pollerVars, serviceWorkerUpdated, dimNeedsUpdate,
                   registered, registration, controller, listeners, ccQueued, ccEvents,
                   vcheck>>

(* The timeout of line 216 expires *)
TimerFire ==
    /\ timers > 0
    /\ timers' = timers - 1
    /\ reloads' = [reloads EXCEPT !["timer"] = @ + 1]
    /\ UNCHANGED <<subscribers, observed, pollerVars, serviceWorkerUpdated, dimNeedsUpdate,
                   workerVars, calls, vcheck>>

-----------------------------------------------------------------------------
(* The program *)

(* The state at module load.  A registration, and a controller with it, may
   be there from an earlier visit.  `registered` stays "pending" for good when
   registerServiceWorker returns at line 54 or the page never fires 'load';
   getRegistration() of reloadDIM throws when navigator.serviceWorker is
   missing. *)
NoCheck == [pc |-> "off", a |-> <<>>, b |-> <<>>, version |-> <<>>, current |-> <<>>,
            result |-> FALSE]

InitProgram ==
    /\ subscribers = 0
    /\ observed = <<>>
    /\ fetch = "idle"
    /\ lastCompared = None
    /\ upd = Idle
    /\ serverVersionChanged = None
    /\ serviceWorkerUpdated = FALSE
    /\ dimNeedsUpdate = FALSE
    /\ updateCalls = 0
    /\ registered = "pending"
    /\ registration \in BOOLEAN
    /\ controller \in BOOLEAN
    /\ controller => registration
    /\ workers = <<>>
    /\ listeners = <<>>
    /\ ccQueued = 0
    /\ ccEvents = 0
    /\ lateUpdates = 0
    /\ lateRejected = FALSE
    /\ timers = 0
    /\ reloads = [s \in ReloadSites |-> 0]
    /\ calls = [n |-> 0, thrown |-> 0, rejected |-> 0]

Init ==
    /\ InitProgram
    /\ vcheck = NoCheck

Next ==
    \/ Subscribe
    \/ Tick
    \/ \E compared \in PollOutcomes : FetchResolve(compared)
    \/ \E updateFailed \in BOOLEAN : UpdateSettled(updateFailed)
    \/ \E updateFailed \in BOOLEAN : UpdateSettledLate(updateFailed)
    \/ RegisterOk
    \/ RegisterFail
    \/ UpdateFound
    \/ \E w \in 1..MaxWorkers : InstallFinished(w)
    \/ \E w \in 1..MaxWorkers : InstallFailed(w)
    \/ \E w \in 1..MaxWorkers, claim \in BOOLEAN : Activate(w, claim)
    \/ ControllerChange
    \/ ControllerChangeAgain
    \/ \E g \in BOOLEAN, p \in BOOLEAN : reloadDIM(g, p)
    \/ TimerFire

Spec == Init /\ [][Next]_vars

-----------------------------------------------------------------------------
(* isNewVersion on its own: every pair of dotted-numeric strings of at most
   MaxSegments segments with values drawn from SegmentValues *)

SegmentValues == {0, 2, 10}

Versions == UNION {[1..n -> SegmentValues] : n \in 1..MaxSegments}

(* The decimal digits of a natural number, and a version written with dots *)
RECURSIVE Digits(_)
Digits(n) ==
    IF n < 10 THEN <<DigitChars[n + 1]>>
    ELSE Append(Digits(n \div 10), DigitChars[(n % 10) + 1])

RECURSIVE Dotted(_, _)
Dotted(segments, i) ==
    IF i = Len(segments) THEN Digits(segments[i])
    ELSE Digits(segments[i]) \o <<".">> \o Dotted(segments, i + 1)

VersionInit ==
    /\ InitProgram
    /\ \E a \in Versions, b \in Versions :
          vcheck = [pc |-> "ready", a |-> a, b |-> b,
                    version |-> Dotted(a, 1), current |-> Dotted(b, 1),
                    result |-> FALSE]

CheckVersion ==
    /\ vcheck.pc = "ready"
    /\ vcheck' = [vcheck EXCEPT
                    !.pc = "done",
                    !.result = isNewVersion(vcheck.version, vcheck.current)]
    /\ UNCHANGED <<subscribers, observed, pollerVars, serviceWorkerUpdated, dimNeedsUpdate,
                   workerVars, reloadVars>>

VersionNext == CheckVersion

VersionSpec == VersionInit /\ [][VersionNext]_vars

(* setTimeout callbacks are run by the event loop *)
FairSpec == Spec /\ WF_vars(TimerFire)

-----------------------------------------------------------------------------
(* Properties *)

(* the "server is ahead" input of the aggregated signal *)
ServerAhead == serverVersionChanged = Some(TRUE)

(* C1: once the aggregated needsUpdate flag is true it is true in every later
   state of the page. *)
C1_MonotonicLatch == [][dimNeedsUpdate => dimNeedsUpdate']_vars

(* C2: whatever the comparison results of the ticks are, the poller invokes
   updateServiceWorker at most once in the page's lifetime. *)
C2_UpdateAttemptOnce == updateCalls <= 1

(* C3: a 'controllerchange' listener armed by the watcher calls
   window.location.reload() on the first event it receives and never again:
   it has reloaded exactly once after every event delivered to it, and not
   at all before. *)
C3_ReloadOnce ==
    /\ [](\A i \in 1..Len(listeners) :
             listeners[i].reloads =
                 IF listeners[i].preventDevToolsReloadLoop THEN 1 ELSE 0)
    /\ [][ccEvents' > ccEvents =>
             \A i \in 1..Len(listeners) : listeners'[i].reloads = 1]_vars

(* C3: the worker was installed under the watcher with a controller present,
   two 'controllerchange' events followed, and its listener reloaded once. *)
C3_Witness ==
    /\ Len(workers) = 1
    /\ workers[1].handler = "watcher"
    /\ ccEvents >= 2
    /\ Len(listeners) = 1
    /\ listeners[1].reloads = 1
    /\ ListenerReloads = 1

(* C4: after reloadDIM() has been invoked, a page reload eventually happens,
   whatever the worker does afterwards. *)
C4_EventuallyReloads == (calls.n > 0) ~> (TotalReloads > 0)

(* C5: no invocation of reloadDIM() rejects, and every exception raised by
   getRegistration() or postMessage() inside it is followed by a call of
   window.location.reload() from the catch block. *)
C5_NeverRejects ==
    /\ calls.rejected = 0
    /\ reloads["catch"] = calls.thrown

(* C5: an invocation in which an exception was raised has ended *)
C5_Witness ==
    /\ calls.thrown >= 1
    /\ reloads["catch"] >= 1
    /\ calls.rejected = 0

(* the first index at which two versions differ, among the indices both have *)
Differing(a, b) == {i \in 1..Min(Len(a), Len(b)) : a[i] # b[i]}
FirstDiffering(a, b) ==
    CHOOSE i \in Differing(a, b) : \A j \in Differing(a, b) : i <= j

(* C6: isNewVersion(A, B) is true exactly when A and B differ at an index
   both have and, at the first such index, A's segment is the greater number. *)
C6_IsNewVersion ==
    vcheck.pc = "done" =>
        (vcheck.result <=>
            /\ Differing(vcheck.a, vcheck.b) # {}
            /\ vcheck.a[FirstDiffering(vcheck.a, vcheck.b)]
                   > vcheck.b[FirstDiffering(vcheck.a, vcheck.b)])

(* C6: "2.10" against "2.2.0" was found newer: the second segments decide,
   as numbers, and the third segment of the longer version is not compared. *)
C6_Witness ==
    /\ vcheck.pc = "done"
    /\ vcheck.version = <<"2", ".", "1", "0">>
    /\ vcheck.current = <<"2", ".", "2", ".", "0">>
    /\ vcheck.result

(* C7: with dimNeedsUpdate$ subscribed, the flag equals serverAhead OR
   workerUpdated, whichever of the two inputs arrived first. *)
C7_FlagIsOr ==
    subscribers > 0 => (dimNeedsUpdate <=> (ServerAhead \/ serviceWorkerUpdated))

(* C8: an update attempt whose registration.update() failed has resolved false. *)
C8_FailedUpdateResolvesFalse ==
    (upd.st = "settled" /\ upd.failed) => ~upd.value

(* a worker under the watcher's handler reaches 'installed' in this step *)
WatcherSeesInstalled ==
    \E w \in 1..Len(workers) :
        /\ workers[w].handler = "watcher"
        /\ workers[w].state = "installing"
        /\ workers'[w].state = "installed"

(* C9: when the watcher sees a worker reach 'installed' and the page has no
   controller, workerUpdated stays false, no listener is armed and nothing
   reloads; and while workerUpdated is false there is no listener, so that a
   'controllerchange' event reloads nothing. *)
C9_FirstInstall ==
    /\ [](~serviceWorkerUpdated => listeners = <<>>)
    /\ [][(WatcherSeesInstalled /\ ~controller) =>
             /\ ~serviceWorkerUpdated'
             /\ listeners' = <<>>
             /\ TotalReloads' = TotalReloads]_vars
    /\ [][(ccEvents' > ccEvents /\ ~serviceWorkerUpdated) =>
             TotalReloads' = TotalReloads]_vars

(* C9: a worker installed under the watcher without a controller (the latch
   is still false), then took control of the page: nothing reloaded. *)
C9_Witness ==
    /\ Len(workers) = 1
    /\ workers[1].handler = "watcher"
    /\ workers[1].state = "activated"
    /\ ccEvents >= 1
    /\ ~serviceWorkerUpdated
    /\ TotalReloads = 0

(* C10: workerUpdated starts false, and in every step it is true afterwards
   exactly if it was true before or the watcher saw a worker reach
   'installed' with a controller present. *)
C10_WorkerUpdatedLatch ==
    /\ ~serviceWorkerUpdated
    /\ [][serviceWorkerUpdated' <=>
             (serviceWorkerUpdated \/ (WatcherSeesInstalled /\ controller))]_vars

(* C10: the latch was set, and polls, an update attempt and reloadDIM() came
   with it. *)
C10_Witness ==
    /\ serviceWorkerUpdated
    /\ updateCalls >= 1
    /\ upd.st = "settled"
    /\ calls.n >= 1
    /\ registered = "ok"

(* C11: when reloadDIM() runs and getRegistration() yields no registration,
   the same invocation calls window.location.reload() (lines 186-190): no
   timer is scheduled, no worker or listener is touched, no 'skipWaiting'
   is posted, and the promise does not reject. *)
C11_NoRegistrationReloads ==
    [][(/\ calls'.n = calls.n + 1
        /\ ~registration
        /\ calls'.thrown = calls.thrown)
       => (/\ reloads'["noreg"] = reloads["noreg"] + 1
           /\ timers' = timers
           /\ workers' = workers
           /\ listeners' = listeners
           /\ calls'.rejected = calls.rejected)]_vars

C11_Witness ==
    /\ ~registration
    /\ calls.n = 1
    /\ calls.thrown = 0
    /\ calls.rejected = 0
    /\ reloads["noreg"] = 1
    /\ timers = 0

(* C12: a tick whose fetch fails (network error, non-OK response, body that
   does not parse, no version field) emits nothing: the comparison result,
   the update check, the server signal, the flag and the number of update
   attempts stay as they were.  The schedule survives, the timer can always
   fire again; and a later tick that succeeds is compared, and starts the
   update attempt when its result is the first 'newer' one. *)
FailedTick == fetch = "pending" /\ fetch' \in {"failed", "dead"}

SucceededTick == fetch = "pending" /\ fetch' \in {"idle", "same"}

C12_FailedTickHarmless ==
    /\ [](subscribers > 0 => ENABLED Tick)
    /\ [][FailedTick => UNCHANGED <<lastCompared, upd, serverVersionChanged,
                                    dimNeedsUpdate, updateCalls>>]_vars
    /\ [][SucceededTick
           => (/\ lastCompared' # None
               /\ (lastCompared' = Some(TRUE) /\ lastCompared # Some(TRUE))
                     => updateCalls' = updateCalls + 1)]_vars

C12_Witness ==
    /\ fetch = "failed"
    /\ lastCompared = Some(FALSE)
    /\ serverVersionChanged = Some(FALSE)
    /\ updateCalls = 0
    /\ ENABLED Tick

(* The places where the program catches an error: the fetch of a poll tick
   (line 23), navigator.serviceWorker.register (lines 127-130),
   registration.update() (lines 109-115), the body of reloadDIM
   (lines 219-222). *)
CatchSites == {"poll", "register", "update", "reload"}

(* What each catch does with the error; debugSW is $featureFlags.debugSW. *)
ErrorHandling(site, debugSW) ==
    CASE site = "poll"     -> [logged |-> FALSE, reported |-> FALSE, rethrown |-> FALSE]
      [] site = "register" -> [logged |-> TRUE, reported |-> TRUE, rethrown |-> FALSE]
      [] site = "update"   -> [logged |-> debugSW, reported |-> debugSW, rethrown |-> FALSE]
      [] site = "reload"   -> [logged |-> TRUE, reported |-> FALSE,
                               rethrown |-> CatchBlock.rejects]

(* A catch runs in the step: the fetch of a tick fails, register() rejects,
   registration.update() rejects (awaited by the poller or not any more),
   reloadDIM throws inside its try block. *)
CatchRuns(site) ==
    CASE site = "poll"     -> fetch = "pending" /\ fetch' \in {"failed", "dead"}
      [] site = "register" -> registered = "pending" /\ registered' = "failed"
      [] site = "update"   -> \/ upd.st = "pending" /\ upd'.st = "settled" /\ upd'.failed
                              \/ lateUpdates' < lateUpdates /\ lateRejected'
      [] site = "reload"   -> calls'.thrown > calls.thrown

(* C13: every error the program catches (poll fetch or parse failure,
   registration failure, update-check failure, exception inside reloadDIM)
   is logged and passed to reportException, and none is re-thrown,
   whatever the build's debugSW flag. *)
C13_CaughtErrorsReported ==
    [][\A site \in CatchSites, debugSW \in BOOLEAN :
          CatchRuns(site) => /\ ErrorHandling(site, debugSW).logged
                             /\ ErrorHandling(site, debugSW).reported
                             /\ ~ErrorHandling(site, debugSW).rethrown]_vars

(* C14: reloadDIM() was called with no worker waiting, one installing and a
   controller in place (the worker's handler is reloadDIM's).  When that
   worker reaches 'installed' it is sent 'skipWaiting' and the watcher's
   handling of 'installed' takes place for it as well: the latch is set and
   one more 'controllerchange' listener is armed; and the change of
   controller that follows reloads the page once. *)
C14_InstallingPathKeepsWatcher ==
    /\ [][\A w \in 1..Len(workers) :
            (/\ controller
             /\ workers[w].handler = "reload"
             /\ workers[w].state = "installing"
             /\ workers'[w].state = "installed")
            => (/\ workers'[w].skip = workers[w].skip + 1
                /\ serviceWorkerUpdated'
                /\ Len(listeners') = Len(listeners) + 1)]_vars
    /\ [][\A w \in 1..Len(workers) :
            (/\ controller
             /\ workers[w].handler = "reload"
             /\ workers[w].skip > 0
             /\ workers[w].state = "activated"
             /\ ccEvents = 0
             /\ ccEvents' = 1)
            => TotalReloads' = TotalReloads + 1]_vars

(* C15: when reloadDIM() finds a worker waiting (and nothing throws), that
   invocation posts exactly one 'skipWaiting' to the waiting worker, to no
   other worker, and calls no reload itself; it schedules one fallback
   timer.  A scheduled fallback needs nothing but time to fire, whether or
   not 'controllerchange' is ever delivered, and when it fires it reloads
   the page. *)
C15_WaitingPath ==
    /\ [][(/\ calls'.n = calls.n + 1
            /\ registration
            /\ Waiting
            /\ calls'.thrown = calls.thrown)
           => (/\ \A w \in 1..Len(workers) :
                     workers'[w].skip = workers[w].skip
                         + (IF workers[w].state = "installed" THEN 1 ELSE 0)
               /\ Cardinality({w \in 1..Len(workers) :
                                  workers[w].state = "installed"}) = 1
               /\ reloads' = reloads
               /\ listeners' = listeners
               /\ timers' = timers + 1)]_vars
    /\ [][timers' < timers => /\ timers' = timers - 1
                              /\ reloads'["timer"] = reloads["timer"] + 1]_vars
    /\ [](timers > 0 => ENABLED TimerFire)

C15_Witness ==
    /\ calls.n = 1
    /\ calls.thrown = 0
    /\ ccEvents = 0
    /\ reloads["timer"] = 1
    /\ TotalReloads = 1
    /\ \E w \in 1..Len(workers) : workers[w].state = "installed" /\ workers[w].skip = 1

(* C16: a tick whose comparison result equals the previous tick's does not
   call updateServiceWorker() again and leaves the resolved server signal
   (and the flag) as they were.  With the server ahead at every tick from
   the first one on, there is one update attempt: none before the first
   result, one with the first 'newer' result, no more while the result
   stays 'newer'. *)
SameResultTick ==
    /\ fetch = "pending"
    /\ fetch' \in {"idle", "same"}
    /\ lastCompared' = lastCompared

C16_ChangeFilter ==
    /\ [][SameResultTick => UNCHANGED <<lastCompared, upd, serverVersionChanged,
                                        dimNeedsUpdate, updateCalls>>]_vars
    /\ [](lastCompared = None => updateCalls = 0)
    /\ [][(lastCompared = None /\ lastCompared' = Some(TRUE))
           => updateCalls' = 1]_vars
    /\ [][(lastCompared = Some(TRUE) /\ lastCompared' = Some(TRUE))
           => updateCalls' = updateCalls]_vars

C16_Witness ==
    /\ fetch = "same"
    /\ lastCompared = Some(TRUE)
    /\ updateCalls = 1
    /\ upd.st = "settled"

(* C17: the pipeline above shareReplay runs once however many observers
   there are: at most one timer, so one fetch and at most one update attempt
   for a tick.  A second or later subscription starts no timer, no fetch and
   no update attempt; it is handed the value the others have, and after
   every step all observers hold the same latest value of the server
   signal. *)
C17_Multicast ==
    /\ [](Sources <= 1)
    /\ [](/\ Len(observed) = subscribers
          /\ \A i \in 1..Len(observed) : observed[i] = serverVersionChanged)
    /\ [][updateCalls' <= updateCalls + 1]_vars
    /\ [][(subscribers > 0 /\ subscribers' > subscribers)
           => UNCHANGED <<fetch, lastCompared, upd, serverVersionChanged,
                          updateCalls>>]_vars

C17_Witness ==
    /\ subscribers >= 2
    /\ updateCalls = 1
    /\ observed[1] = Some(TRUE)
    /\ observed[2] = Some(TRUE)
    /\ fetch = "idle"

(* C18: as long as register() has not resolved, and for good once it has
   rejected, updateServiceWorker() is the initial no-op: an update attempt
   made then calls no registration.update() (no update check is under way
   after it) and resolves false at once, so a poll result that turns to
   'newer' in that window sets the server signal to false. *)
C18_NoopBeforeRegistration ==
    /\ [][(registered # "ok" /\ updateCalls' = updateCalls + 1)
           => (/\ upd' = Idle
               /\ lastCompared' = Some(TRUE)
               /\ serverVersionChanged' = Some(FALSE))]_vars
    /\ [][registered = "failed" => registered' = "failed"]_vars
    /\ [](registered # "ok" => upd.st = "idle")

C18_Witness ==
    /\ registered = "failed"
    /\ updateCalls = 1
    /\ lastCompared = Some(TRUE)
    /\ serverVersionChanged = Some(FALSE)
    /\ upd = Idle

(* C19: over the life of the page window.location.reload() is called at
   most once, whatever the events and the calls of reloadDIM(): by the
   'controllerchange' listeners, by the branches of reloadDIM and by its
   fallback timer taken together. *)
C19_ReloadAtMostOnce == TotalReloads <= 1

(* C20: 'skipWaiting' is only ever posted to a worker that is in state
   'installed' (waiting) at that moment: never to one still installing, nor
   to one that became redundant or active.  A reloadDIM() call that finds
   neither a waiting nor an installing worker posts nothing and touches no
   worker. *)
C20_SkipWaitingOnlyToInstalled ==
    /\ [][\A w \in 1..Len(workers) :
            workers'[w].skip > workers[w].skip
            => (/\ workers'[w].state = "installed"
                /\ workers'[w].skip = workers[w].skip + 1)]_vars
    /\ [][(calls'.n = calls.n + 1 /\ ~Waiting /\ ~Installing)
           => workers' = workers]_vars
    /\ [](\A w \in 1..Len(workers) :
            workers[w].state = "installing" => workers[w].skip = 0)

C20_Witness ==
    \E w \in 1..Len(workers) :
        /\ workers[w].handler = "reload"
        /\ workers[w].state = "redundant"
        /\ workers[w].skip = 0
        /\ calls.n = 1

=============================================================================
